---- MODULE Spec2Model ----
(***************************************************************************)
(* rrest: the identifier / product HTTP service of                         *)
(* src/http_interface/src/main.rs.                                         *)
(*                                                                         *)
(* State: the identity registry (SharedUser: RwLock<HashMap<Uuid,String>>),*)
(* the SQLite table `product`, and one record per in-flight request (a     *)
(* tokio task): where it stands in its handler, what it carries, and the   *)
(* response it produced.  Every `.await` on a statement is a step of its   *)
(* own, so requests interleave exactly where the code lets them.  A        *)
(* section run under the registry's lock holds no `.await`: it is one step.*)
(***************************************************************************)
EXTENDS Integers, Sequences, FiniteSets, TLC

\* ------------------------------------------------------------- bounds
\* Number of UUID values the generator can draw from.
NumUuids == 2
\* Identifiers issued at most (create_identifier calls admitted).
MaxUsers == 2
\* Rows the product table holds at most (INSERTs admitted).
MaxRows == 2

\* Concurrent requests (tokio tasks) in flight.
Tasks == {"t1", "t2"}

UUIDs == 1..NumUuids
Usernames == {"", "alice"}
Names == {"A", "G"}
Descriptions == {"B", "C"}
\* Option<T>
None == [some |-> FALSE, val |-> ""]
Some(v) == [some |-> TRUE, val |-> v]
\* The bodies of POST /products and of PUT /products the clients send.
CreatePayloads == {<<"A", "B">>, <<"G", "C">>}
ModifyPayloads == {<<n, d>> : n \in {None, Some("G")}, d \in {None, Some("C")}}

\* ------------------------------------------------------------- values
\* StatusCode constants used by the handlers.
OK == 200
CREATED == 201
NO_CONTENT == 204
FOUND == 302
FORBIDDEN == 403
NOT_FOUND == 404
CONFLICT == 409
INTERNAL_SERVER_ERROR == 500

\* Option::unwrap_or
unwrap_or(opt, default) == IF opt.some THEN opt.val ELSE default

\* Uuid::hyphenated().to_string() / Uuid::to_string(): the canonical
\* lower-case hyphenated rendering of a UUID value.
HyphenatedTable ==
    << "00000000-0000-4000-8000-000000000001",
       "00000000-0000-4000-8000-000000000002",
       "00000000-0000-4000-8000-000000000003",
       "00000000-0000-4000-8000-000000000004" >>

to_string(u) == HyphenatedTable[u]

\* The "simple" rendering (no hyphens), which Uuid::parse_str accepts too.
SimpleTable ==
    << "00000000000040008000000000000001",
       "00000000000040008000000000000002",
       "00000000000040008000000000000003",
       "00000000000040008000000000000004" >>

\* A header value that is no UUID in any accepted form.
Malformed == "not-a-uuid"

\* Uuid::parse_str: Ok(u) for the hyphenated or the simple form of u, else Err.
parse_str(s) ==
    IF \E u \in 1..Len(HyphenatedTable) : s = HyphenatedTable[u] \/ s = SimpleTable[u]
    THEN [ok |-> TRUE,
          val |-> CHOOSE u \in 1..Len(HyphenatedTable) :
                      s = HyphenatedTable[u] \/ s = SimpleTable[u]]
    ELSE [ok |-> FALSE, val |-> 0]

\* The `uuid` request header as http::HeaderValue: absent, bytes that are not
\* visible ASCII (to_str() fails), or text.
NoHeader == [present |-> FALSE, ascii |-> FALSE, text |-> ""]
BinaryHeader == [present |-> TRUE, ascii |-> FALSE, text |-> ""]
TextHeader(s) == [present |-> TRUE, ascii |-> TRUE, text |-> s]

HeaderValues ==
    {NoHeader, BinaryHeader, TextHeader(Malformed), TextHeader(SimpleTable[1])}
        \cup {TextHeader(HyphenatedTable[u]) : u \in UUIDs}

\* parts.headers.get("uuid").and_then(|id| id.to_str().ok())
header_to_str(h) == IF h.present /\ h.ascii THEN Some(h.text) ELSE None

\* Rejection texts of the guard.
MsgMissing == "Please pass your identifier"
MsgMalformed == "Invalid identifier"
MsgUnknown == "Invalid identifier!"

\* struct Product / Product::default()
Product(n, d) == [name |-> n, description |-> d]
ProductDefault == Product("", "")

\* A response: status and body.  Every body is a record of the same shape:
\* kind says which of its fields the handler filled.
Body(kind, id, username, name, description, text) ==
    [kind |-> kind, id |-> id, username |-> username,
     name |-> name, description |-> description, text |-> text]
NoBody == Body("none", "", "", "", "", "")
TextBody(s) == Body("text", "", "", "", "", s)
JsonString(s) == Body("string", s, "", "", "", "")
JsonUser(id, username) == Body("user", id, username, "", "", "")
JsonProduct(p) == Body("product", "", "", p.name, p.description, "")
Response(status, body) == [status |-> status, body |-> body]
NoResponse == Response(0, NoBody)

\* Result<T, StatusCode>
Ok(v) == [ok |-> TRUE, val |-> v, err |-> 0]
Err(e) == [ok |-> FALSE, val |-> ProductDefault, err |-> e]

\* ------------------------------------------------------------- registry
\* HashMapInsert got wrong: the insert writes v over every entry.
HashMapInsert_Overwrite(m, k, v) ==
    [x \in DOMAIN m \cup {k} |-> v]

\* HashMapInsert got wrong: the insert drops the entries already there.
HashMapInsert_Replace(m, k, v) ==
    [x \in {k} |-> v]

\* HashMap::insert: the entry for k is set to v, replacing any earlier one.
HashMapInsert(m, k, v) ==
    [x \in DOMAIN m \cup {k} |-> IF x = k THEN v ELSE m[x]]

\* HashMap::get
HashMapGet(m, k) == IF k \in DOMAIN m THEN Some(m[k]) ELSE None

\* ------------------------------------------------------------- product table
\* A row of `product (owner text, name text, description text)`.
Row(o, n, d) == [owner |-> o, name |-> n, description |-> d]

\* The rows of tbl with owner = o, in rowid order.
RowsOf(tbl, o) == SelectSeq(tbl, LAMBDA r : r.owner = o)

\* Number of rows of tbl with owner = o.
CountOf(tbl, o) == Len(RowsOf(tbl, o))

\* Db_read_product got wrong: the owner is bound in a rendering no row
\* carries, so the SELECT matches nothing.
Db_read_product_NoMatch(uuid, tbl) ==
    Err(NOT_FOUND)

\* Db::read_product: SELECT ... WHERE owner = ?1 with fetch_one: the first
\* matching row, or NOT_FOUND when no row matches.
Db_read_product(uuid, tbl) ==
    LET rows == RowsOf(tbl, to_string(uuid))
    IN  IF Len(rows) = 0
        THEN Err(NOT_FOUND)
        ELSE Ok(Product(rows[1].name, rows[1].description))

\* InsertRow got wrong: the new row comes before the rows already there.
InsertRow_First(tbl, uuid, name, description) ==
    <<Row(to_string(uuid), name, description)>> \o tbl

\* The table after INSERT INTO product VALUES (?1, ?2, ?3): a new row with
\* the next rowid.  No constraint rejects it.
InsertRow(tbl, uuid, name, description) ==
    Append(tbl, Row(to_string(uuid), name, description))

\* UpdateRows got wrong: the UPDATE has no WHERE clause.
UpdateRows_All(tbl, uuid, name, description) ==
    [i \in 1..Len(tbl) |-> Row(tbl[i].owner, name, description)]

\* The table after UPDATE product SET name, description WHERE owner = ?3.
UpdateRows(tbl, uuid, name, description) ==
    [i \in 1..Len(tbl) |->
        IF tbl[i].owner = to_string(uuid)
        THEN Row(tbl[i].owner, name, description)
        ELSE tbl[i]]

\* DeleteRows got wrong: the statement removes no row.
DeleteRows_Nothing(tbl, uuid) ==
    tbl

\* The table after DELETE FROM product WHERE owner = ?1.
DeleteRows(tbl, uuid) == SelectSeq(tbl, LAMBDA r : r.owner # to_string(uuid))

\* rows_affected() of the UPDATE and of the DELETE.
RowsAffected(tbl, uuid) == CountOf(tbl, to_string(uuid))

\* Db::save_product's result: the INSERT affects one row.
Db_save_product(rows_affected) ==
    IF rows_affected = 1 THEN Ok(ProductDefault) ELSE Err(INTERNAL_SERVER_ERROR)

\* Db::update_product's result from rows_affected().
Db_update_product(rows_affected) ==
    IF rows_affected = 1 THEN Ok(ProductDefault) ELSE Err(INTERNAL_SERVER_ERROR)

\* Db_delete_product got wrong: no row affected counts as success too.
Db_delete_product_ZeroOk(rows_affected) ==
    IF rows_affected <= 1 THEN Ok(ProductDefault) ELSE Err(NOT_FOUND)

\* Db::delete_product's result from rows_affected().
Db_delete_product(rows_affected) ==
    IF rows_affected = 1 THEN Ok(ProductDefault) ELSE Err(NOT_FOUND)

\* ------------------------------------------------------------- state
VARIABLES
    usermap,    \* SharedUser: the registry, Uuid -> username
    product,    \* the product table: its rows in rowid order
    pc,         \* pc[t]: where task t stands
    req,        \* req[t]: the request task t serves
    id,         \* id[t]: the Uuid task t works with (generated or validated)
    found,      \* found[t]: the Product modify_product read
    resp,       \* resp[t]: the response task t produced
    issued,     \* the (identifier, username) pairs create_identifier returned
    rwlock      \* the registry's RwLock: the tasks holding a write / a read guard

vars == <<usermap, product, pc, req, id, found, resp, issued, rwlock>>

ProtectedMethods ==
    {"GET /identifiers", "POST /products", "GET /products", "PUT /products",
     "DELETE /products"}

\* A request: method, `uuid` header, and what the later extractors take from
\* it (Query<CreateUser>, Json<Product>, Json<ModifyProduct>).
Request(method, header, username, name, description) ==
    [method |-> method, header |-> header, username |-> username,
     name |-> name, description |-> description]
NoRequest == Request("", NoHeader, "", None, None)

\* RwLock::new(HashMap::new()): nobody holds a guard.
Unlocked == [writers |-> {}, readers |-> {}]

Init ==
    /\ usermap = << >>
    /\ product = << >>
    /\ pc = [t \in Tasks |-> "idle"]
    /\ req = [t \in Tasks |-> NoRequest]
    /\ id = [t \in Tasks |-> 0]
    /\ found = [t \in Tasks |-> ProductDefault]
    /\ resp = [t \in Tasks |-> NoResponse]
    /\ issued = {}
    /\ rwlock = Unlocked

\* ------------------------------------------------------------- helpers
Set(t, f, v) == [f EXCEPT ![t] = v]

\* The handler returned: its locals (the validated id, the payload, the product
\* it read) are dropped; the request line and the response remain.
Returned(r) == Request(r.method, r.header, r.username, None, None)

\* The tasks serving a request of method m.
InFlight(m) == {t \in Tasks : req[t].method = m /\ pc[t] \notin {"idle", "done", "panicked"}}

\* NewV4 got wrong: the draw may repeat an identifier already in the registry.
NewV4_Any(m) == UUIDs

\* Uuid::new_v4(): a random value.  122 random bits: a value that repeats an
\* earlier draw is taken not to occur, so the draw is among the values not in
\* the registry.
NewV4(m) == UUIDs \ DOMAIN m

\* The guard's verdict: the validated Uuid or the rejection.
Accept(u) == [ok |-> TRUE, uuid |-> u, rejection |-> NoResponse]
Reject(status, text) == [ok |-> FALSE, uuid |-> 0, rejection |-> Response(status, TextBody(text))]

\* verify_uuid got wrong: the registry lookup is left out.
verify_uuid_NoLookup(uuid, m) ==
    IF ~parse_str(uuid).ok
    THEN Reject(FORBIDDEN, MsgMalformed)
    ELSE Accept(parse_str(uuid).val)

\* verify_uuid got wrong: the unknown identifier is given the malformed one's text.
verify_uuid_OneText(uuid, m) ==
    IF ~parse_str(uuid).ok
    THEN Reject(FORBIDDEN, MsgMalformed)
    ELSE IF HashMapGet(m, parse_str(uuid).val).some
         THEN Accept(parse_str(uuid).val)
         ELSE Reject(FORBIDDEN, MsgMalformed)

\* verify_uuid: parse the text, look the Uuid up in the registry.
verify_uuid(uuid, m) ==
    IF ~parse_str(uuid).ok
    THEN Reject(FORBIDDEN, MsgMalformed)
    ELSE IF HashMapGet(m, parse_str(uuid).val).some
         THEN Accept(parse_str(uuid).val)
         ELSE Reject(FORBIDDEN, MsgUnknown)

\* from_request_parts got wrong: the header's identifier is parsed and taken
\* as validated, the registry is not asked.
from_request_parts_Unverified(h, m) ==
    IF ~header_to_str(h).some
    THEN Reject(FORBIDDEN, MsgMissing)
    ELSE IF parse_str(header_to_str(h).val).ok
         THEN Accept(parse_str(header_to_str(h).val).val)
         ELSE Reject(FORBIDDEN, MsgMalformed)

\* RequiredUserId::from_request_parts: the header must be there and be text.
from_request_parts(h, m) ==
    IF ~header_to_str(h).some
    THEN Reject(FORBIDDEN, MsgMissing)
    ELSE verify_uuid(header_to_str(h).val, m)

\* modify_product's merge of the payload over the product it read.
Merge(payload_name, payload_description, p) ==
    Product(unwrap_or(payload_name, p.name), unwrap_or(payload_description, p.description))

\* get_identifier_response got wrong: the username is left at User::default()'s.
get_identifier_response_NoName(uuid, username) ==
    Response(FOUND, JsonUser(to_string(uuid), ""))

\* get_identifier's answer for the entry it found.
get_identifier_response(uuid, username) ==
    Response(FOUND, JsonUser(to_string(uuid), username))

\* create_product's answer after the INSERT.
create_product_response(res, name, description) ==
    IF res.ok
    THEN Response(CREATED, JsonProduct(Product(name, description)))
    ELSE Response(res.err, JsonProduct(ProductDefault))

\* get_product's answer.
get_product_response(res) ==
    IF res.ok
    THEN Response(FOUND, JsonProduct(res.val))
    ELSE Response(NOT_FOUND, JsonProduct(ProductDefault))

\* delete_product's and modify_product's answer for a statement's result.
status_response(res) ==
    IF res.ok THEN Response(NO_CONTENT, NoBody) ELSE Response(res.err, NoBody)

\* ------------------------------------------------------------- create_identifier
\* POST /identifiers?username=..: draw the id, insert under the write lock,
\* answer 200 with the hyphenated id.
create_identifier(t) ==
    /\ pc[t] = "idle"
    /\ Cardinality(DOMAIN usermap) < MaxUsers
    /\ \E username \in Usernames, u \in NewV4(usermap) :
          /\ req' = Set(t, req, Request("POST /identifiers", NoHeader, username, None, None))
          /\ usermap' = HashMapInsert(usermap, u, username)
          /\ resp' = Set(t, resp, Response(OK, JsonString(to_string(u))))
          /\ issued' = issued \cup {<<to_string(u), username>>}
    /\ pc' = Set(t, pc, "done")
    /\ UNCHANGED <<product, id, found, rwlock>>

\* ------------------------------------------------------------- the guard
\* A request to a protected route arrives and its first extractor,
\* RequiredUserId, runs: the handler is entered only with a validated Uuid.
RequiredUserId(t) ==
    /\ pc[t] = "idle"
    /\ \E m \in ProtectedMethods, h \in HeaderValues :
          /\ m = "POST /products" =>
                Len(product) + Cardinality(InFlight("POST /products")) < MaxRows
          /\ req' = Set(t, req, Request(m, h, "", None, None))
          /\ IF from_request_parts(h, usermap).ok
             THEN /\ id' = Set(t, id, from_request_parts(h, usermap).uuid)
                  /\ pc' = Set(t, pc, "handler")
                  /\ UNCHANGED resp
             ELSE /\ resp' = Set(t, resp, from_request_parts(h, usermap).rejection)
                  /\ pc' = Set(t, pc, "done")
                  /\ UNCHANGED id
    /\ UNCHANGED <<usermap, product, found, issued, rwlock>>

\* ------------------------------------------------------------- get_identifier
\* Lines 142-152: under the read lock, get_key_value(..).unwrap(): the entry,
\* or a panic of the task.
get_identifier(t) ==
    /\ pc[t] = "handler" /\ req[t].method = "GET /identifiers"
    /\ IF HashMapGet(usermap, id[t]).some
       THEN /\ resp' = Set(t, resp, get_identifier_response(id[t], HashMapGet(usermap, id[t]).val))
            /\ pc' = Set(t, pc, "done")
       ELSE /\ pc' = Set(t, pc, "panicked")
            /\ UNCHANGED resp
    /\ id' = Set(t, id, 0)
    /\ UNCHANGED <<usermap, product, req, found, issued, rwlock>>

\* ------------------------------------------------------------- create_product
\* The Json<Product> extractor, then line 116: the existence check; a record
\* found answers 409.
create_product_read(t) ==
    /\ pc[t] = "handler" /\ req[t].method = "POST /products"
    /\ IF ~Db_read_product(id[t], product).ok
       THEN /\ \E payload \in CreatePayloads :
                  req' = Set(t, req, [req[t] EXCEPT !.name = Some(payload[1]),
                                                    !.description = Some(payload[2])])
            /\ pc' = Set(t, pc, "save")
            /\ UNCHANGED <<resp, id>>
       ELSE /\ resp' = Set(t, resp, Response(CONFLICT, JsonProduct(ProductDefault)))
            /\ pc' = Set(t, pc, "done")
            /\ id' = Set(t, id, 0)
            /\ UNCHANGED req
    /\ UNCHANGED <<usermap, product, found, issued, rwlock>>

\* Lines 117-131: the INSERT and the answer.
create_product_save(t) ==
    /\ pc[t] = "save"
    /\ product' = InsertRow(product, id[t], req[t].name.val, req[t].description.val)
    /\ resp' = Set(t, resp,
                   create_product_response(Db_save_product(Len(product') - Len(product)),
                                           req[t].name.val, req[t].description.val))
    /\ pc' = Set(t, pc, "done")
    /\ req' = Set(t, req, Returned(req[t]))
    /\ id' = Set(t, id, 0)
    /\ UNCHANGED <<usermap, found, issued, rwlock>>

\* ------------------------------------------------------------- get_product
get_product(t) ==
    /\ pc[t] = "handler" /\ req[t].method = "GET /products"
    /\ resp' = Set(t, resp, get_product_response(Db_read_product(id[t], product)))
    /\ pc' = Set(t, pc, "done")
    /\ id' = Set(t, id, 0)
    /\ UNCHANGED <<usermap, product, req, found, issued, rwlock>>

\* ------------------------------------------------------------- delete_product
delete_product(t) ==
    /\ pc[t] = "handler" /\ req[t].method = "DELETE /products"
    /\ product' = DeleteRows(product, id[t])
    /\ resp' = Set(t, resp, status_response(Db_delete_product(RowsAffected(product, id[t]))))
    /\ pc' = Set(t, pc, "done")
    /\ id' = Set(t, id, 0)
    /\ UNCHANGED <<usermap, req, found, issued, rwlock>>

\* ------------------------------------------------------------- modify_product
\* The Json<ModifyProduct> extractor, then line 185: the existence check; no
\* record answers 404.
modify_product_read(t) ==
    /\ pc[t] = "handler" /\ req[t].method = "PUT /products"
    /\ IF Db_read_product(id[t], product).ok
       THEN /\ \E payload \in ModifyPayloads :
                  req' = Set(t, req, [req[t] EXCEPT !.name = payload[1],
                                                    !.description = payload[2]])
            /\ found' = Set(t, found, Db_read_product(id[t], product).val)
            /\ pc' = Set(t, pc, "update")
            /\ UNCHANGED <<resp, id>>
       ELSE /\ resp' = Set(t, resp, status_response(Db_read_product(id[t], product)))
            /\ pc' = Set(t, pc, "done")
            /\ id' = Set(t, id, 0)
            /\ UNCHANGED <<found, req>>
    /\ UNCHANGED <<usermap, product, issued, rwlock>>

\* Lines 187-196: merge, UPDATE, answer.
modify_product_update(t) ==
    /\ pc[t] = "update"
    /\ LET new == Merge(req[t].name, req[t].description, found[t])
       IN  /\ product' = UpdateRows(product, id[t], new.name, new.description)
           /\ resp' = Set(t, resp,
                          status_response(Db_update_product(RowsAffected(product, id[t]))))
    /\ pc' = Set(t, pc, "done")
    /\ req' = Set(t, req, Returned(req[t]))
    /\ id' = Set(t, id, 0)
    /\ found' = Set(t, found, ProductDefault)
    /\ UNCHANGED <<usermap, issued, rwlock>>

\* ------------------------------------------------------------- the response
\* The response leaves (after a panic: the connection closes); the task is
\* free for the next request.
Finish(t) ==
    /\ pc[t] \in {"done", "panicked"}
    /\ pc' = Set(t, pc, "idle")
    /\ req' = Set(t, req, NoRequest)
    /\ resp' = Set(t, resp, NoResponse)
    /\ UNCHANGED <<usermap, product, id, found, issued, rwlock>>

\* ------------------------------------------------------------- specification
Next ==
    \E t \in Tasks :
        \/ create_identifier(t)
        \/ RequiredUserId(t)
        \/ get_identifier(t)
        \/ create_product_read(t)
        \/ create_product_save(t)
        \/ get_product(t)
        \/ delete_product(t)
        \/ modify_product_read(t)
        \/ modify_product_update(t)
        \/ Finish(t)

Spec == Init /\ [][Next]_vars

\* ------------------------------------------------------------- properties
\* Task t takes a step of its own.
Stepped(t) == pc'[t] # pc[t]

\* The identifiers create_identifier has returned so far.
IssuedIds == {pair[1] : pair \in issued}

\* The first row of owner o in tbl, as the product a reader gets.
FirstOf(tbl, o) == Product(RowsOf(tbl, o)[1].name, RowsOf(tbl, o)[1].description)

\* C1: in every reachable state the product table holds at most one row per
\* owner identifier, also when requests of one owner run concurrently.
C1_OneProductPerOwner ==
    \A u \in UUIDs : CountOf(product, to_string(u)) <= 1

\* C2: a POST /products whose existence check finds a record of the owner
\* answers 409 and leaves the table as it was: a read right after it gets the
\* name and description a read right before it got.
C2_ConflictKeepsRecord ==
    [][\A t \in Tasks :
          (/\ pc[t] = "handler"
           /\ req[t].method = "POST /products"
           /\ Stepped(t)
           /\ CountOf(product, to_string(id[t])) > 0)
          => /\ pc'[t] = "done"
             /\ resp'[t] = Response(409, JsonProduct(ProductDefault))
             /\ product' = product
             /\ CountOf(product', to_string(id[t])) > 0
             /\ FirstOf(product', to_string(id[t])) = FirstOf(product, to_string(id[t]))
             /\ usermap' = usermap]_vars

\* C2's case: a create answered 409 while the owner's record is in the table.
C2_Witness ==
    \E t \in Tasks :
        /\ pc[t] = "done"
        /\ req[t].method = "POST /products"
        /\ resp[t].status = 409
        /\ parse_str(req[t].header.text).ok
        /\ CountOf(product, to_string(parse_str(req[t].header.text).val)) > 0

\* C3: a request to a protected route whose header names an identifier that
\* create_identifier never returned is answered 403 and changes neither the
\* registry nor the product table; no handler ever runs with such an id.
C3_UnknownIdentifierRejected ==
    [][\A t \in Tasks :
          /\ (/\ pc[t] = "idle"
              /\ Stepped(t)
              /\ req'[t].method \in ProtectedMethods
              /\ header_to_str(req'[t].header).some
              /\ parse_str(req'[t].header.text).ok
              /\ to_string(parse_str(req'[t].header.text).val) \notin IssuedIds)
             => /\ pc'[t] = "done"
                /\ resp'[t].status = 403
                /\ usermap' = usermap
                /\ product' = product
          /\ pc'[t] \in {"handler", "save", "update"}
                => to_string(id'[t]) \in IssuedIds']_vars

\* C3's case: a never-issued identifier was rejected while the product table
\* holds a record.
C3_Witness ==
    \E t \in Tasks :
        /\ pc[t] = "done"
        /\ req[t].method = "DELETE /products"
        /\ resp[t].status = 403
        /\ parse_str(req[t].header.text).ok
        /\ to_string(parse_str(req[t].header.text).val) \notin IssuedIds
        /\ Len(product) > 0

\* C4 as stated: a missing header gives 403 "Please pass your identifier"; a
\* malformed identifier and an unknown one both give 403 "Invalid identifier".
C4_SameTextForMalformedAndUnknown ==
    \A t \in Tasks :
        (pc[t] = "done" /\ req[t].method \in ProtectedMethods /\ resp[t].status = 403)
        => /\ resp[t].body.kind = "text"
           /\ ~req[t].header.present => resp[t].body.text = "Please pass your identifier"
           /\ (req[t].header.present /\ req[t].header.ascii)
                 => resp[t].body.text = "Invalid identifier"

\* C4 as amended: a missing header (or one that is not text) gives 403
\* "Please pass your identifier", a malformed identifier gives 403 "Invalid
\* identifier", an unknown identifier gives 403 "Invalid identifier!".
C4_RejectionTexts ==
    \A t \in Tasks :
        (req[t].method \in ProtectedMethods /\ pc[t] # "idle")
        => /\ ~header_to_str(req[t].header).some
                => /\ pc[t] = "done"
                   /\ resp[t] = Response(403, TextBody("Please pass your identifier"))
           /\ (header_to_str(req[t].header).some /\ ~parse_str(req[t].header.text).ok)
                => /\ pc[t] = "done"
                   /\ resp[t] = Response(403, TextBody("Invalid identifier"))
           /\ (header_to_str(req[t].header).some /\ parse_str(req[t].header.text).ok
                 /\ pc[t] = "done" /\ resp[t].status = 403)
                => resp[t] = Response(403, TextBody("Invalid identifier!"))

\* C4's case: all three kinds of rejection have happened: two tasks hold a
\* rejection each, a malformed and an unknown identifier.
C4_Witness ==
    \E t1, t2 \in Tasks :
        /\ pc[t1] = "done" /\ pc[t2] = "done"
        /\ req[t1].header = TextHeader(Malformed)
        /\ resp[t1].body.text = "Invalid identifier"
        /\ parse_str(req[t2].header.text).ok
        /\ resp[t2].body.text = "Invalid identifier!"

\* C5: a GET /identifiers that carries an identifier create_identifier has
\* returned passes the guard and is answered 302 with that identifier and the
\* username given when it was issued, whatever happened in between.
C5_IdentityRoundTrip ==
    [][\A t \in Tasks :
          /\ (/\ pc[t] = "idle"
              /\ Stepped(t)
              /\ req'[t].method = "GET /identifiers"
              /\ \E pair \in issued : req'[t].header = TextHeader(pair[1]))
             => pc'[t] = "handler"
          /\ (/\ pc[t] = "handler"
              /\ req[t].method = "GET /identifiers"
              /\ Stepped(t))
             => \A pair \in issued :
                   req[t].header = TextHeader(pair[1])
                   => /\ pc'[t] = "done"
                      /\ resp'[t] = Response(302, JsonUser(pair[1], pair[2]))]_vars

\* C5's case: after a second issuance and a product write, the first
\* identifier's owner read back the username "alice" it was issued for.
C5_Witness ==
    \E t \in Tasks :
        /\ pc[t] = "done"
        /\ req[t].method = "GET /identifiers"
        /\ resp[t].status = 302
        /\ resp[t].body.username = "alice"
        /\ <<resp[t].body.id, "alice">> \in issued
        /\ Cardinality(issued) = 2
        /\ Len(product) > 0

\* C6: a registry entry, once stored, stays and keeps its username through
\* every step, later issuances included.
C6_RegistryImmutable ==
    [][\A u \in DOMAIN usermap :
          u \in DOMAIN usermap' /\ usermap'[u] = usermap[u]]_vars

\* C6's case: a second identifier was issued, for another username, next to
\* the first.
C6_Witness ==
    /\ Cardinality(DOMAIN usermap) = 2
    /\ \E u, v \in DOMAIN usermap : usermap[u] = "" /\ usermap[v] = "alice"

\* C7: a PUT /products for an owner whose record is {n, d} answers 204, and a
\* read after it gets the fields the request supplied and n or d for the
\* fields it left out; a PUT with neither field leaves the table as it was.
C7_PartialUpdate ==
    [][\A t \in Tasks :
          (/\ pc[t] = "update"
           /\ Stepped(t)
           /\ CountOf(product, to_string(id[t])) > 0
           /\ FirstOf(product, to_string(id[t])) = found[t])
          => /\ resp'[t].status = 204
             /\ CountOf(product', to_string(id[t])) > 0
             /\ FirstOf(product', to_string(id[t])) =
                   Product(IF req[t].name.some THEN req[t].name.val ELSE found[t].name,
                           IF req[t].description.some THEN req[t].description.val
                           ELSE found[t].description)
             /\ (~req[t].name.some /\ ~req[t].description.some) => product' = product]_vars

\* C8: a DELETE /products answered 204 leaves no row of the owner; rows of an
\* owner come back only with the INSERT of a create by that owner; and a GET
\* /products of an owner without rows answers 404.
C8_DeleteThenRead ==
    [][/\ \A t \in Tasks :
             /\ (/\ pc[t] = "handler"
                 /\ req[t].method = "DELETE /products"
                 /\ Stepped(t)
                 /\ resp'[t].status = 204)
                => CountOf(product', to_string(id[t])) = 0
             /\ (/\ pc[t] = "handler"
                 /\ req[t].method = "GET /products"
                 /\ Stepped(t)
                 /\ CountOf(product, to_string(id[t])) = 0)
                => resp'[t].status = 404
       /\ \A u \in UUIDs :
             (CountOf(product, to_string(u)) = 0 /\ CountOf(product', to_string(u)) > 0)
             => \E t \in Tasks :
                   /\ req[t].method = "POST /products"
                   /\ pc[t] = "save" /\ Stepped(t)
                   /\ id[t] = u]_vars

\* C8's case: one task holds the 204 of a DELETE, the other the 404 of a GET
\* by the same owner, and the table holds no row of that owner.
C8_Witness ==
    \E t1, t2 \in Tasks :
        /\ pc[t1] = "done" /\ req[t1].method = "DELETE /products" /\ resp[t1].status = 204
        /\ pc[t2] = "done" /\ req[t2].method = "GET /products" /\ resp[t2].status = 404
        /\ req[t1].header = req[t2].header
        /\ req[t1].header.text \in IssuedIds
        /\ CountOf(product, req[t1].header.text) = 0

\* C9: for a validated owner without a product record, GET, PUT and DELETE
\* /products each answer 404 and leave the product table as it was.
C9_NotFoundWithoutRecord ==
    [][\A t \in Tasks :
          (/\ pc[t] = "handler"
           /\ req[t].method \in {"GET /products", "PUT /products", "DELETE /products"}
           /\ Stepped(t)
           /\ CountOf(product, to_string(id[t])) = 0)
          => /\ pc'[t] = "done"
             /\ resp'[t].status = 404
             /\ product' = product]_vars

\* C9's case: a PUT and a DELETE of an owner without a record were both
\* answered 404 while another owner's record is in the table.
C9_Witness ==
    \E t1, t2 \in Tasks :
        /\ pc[t1] = "done" /\ req[t1].method = "PUT /products" /\ resp[t1].status = 404
        /\ pc[t2] = "done" /\ req[t2].method = "DELETE /products" /\ resp[t2].status = 404
        /\ req[t1].header = req[t2].header
        /\ req[t1].header.text \in IssuedIds
        /\ CountOf(product, req[t1].header.text) = 0
        /\ Len(product) > 0

C11_IssuanceOpenAndTotal ==
    /\ [][\A t \in Tasks :
            (pc[t] = "idle" /\ Stepped(t) /\ req'[t].method = "POST /identifiers")
            => /\ ~req'[t].header.present
               /\ pc'[t] = "done"
               /\ resp'[t].status = 200
               /\ resp'[t].body.kind = "string"
               /\ parse_str(resp'[t].body.id).ok
               /\ parse_str(resp'[t].body.id).val \notin DOMAIN usermap
               /\ DOMAIN usermap' = DOMAIN usermap \cup {parse_str(resp'[t].body.id).val}
               /\ Cardinality(DOMAIN usermap') = Cardinality(DOMAIN usermap) + 1
               /\ usermap'[parse_str(resp'[t].body.id).val] = req'[t].username
               /\ \A u \in DOMAIN usermap : usermap'[u] = usermap[u]
               /\ product' = product]_vars
    /\ [](\A t \in Tasks, username \in Usernames :
            (pc[t] = "idle" /\ Cardinality(DOMAIN usermap) < MaxUsers
                            /\ Cardinality(DOMAIN usermap) < NumUuids)
            => ENABLED (create_identifier(t) /\ req'[t].username = username))

\* C11's case: an identifier was issued for the empty username while the
\* registry and the product table already held an entry.
C11_Witness ==
    \E t \in Tasks :
        /\ pc[t] = "done"
        /\ req[t].method = "POST /identifiers"
        /\ req[t].username = ""
        /\ resp[t].status = 200
        /\ Cardinality(DOMAIN usermap) = 2
        /\ Len(product) > 0

\* C12: no request is ever answered 500: every INSERT and every UPDATE that
\* runs affects exactly one row, whatever a concurrent DELETE or POST of the
\* same owner does between a PUT's existence check and its UPDATE.
C12_NoInternalServerError ==
    \A t \in Tasks : resp[t].status # 500

\* C13: a product request answered with an error status (403, 404, 409, 500)
\* has left the product table as it was.
C13_NoPartialSuccess ==
    [][\A t \in Tasks :
          (/\ Stepped(t)
           /\ pc'[t] = "done"
           /\ req[t].method \in ProtectedMethods \/ req'[t].method \in ProtectedMethods
           /\ resp'[t].status \in {403, 404, 409, 500})
          => product' = product]_vars


\* ===================================================== the earliest iteration
\* src/src/main.rs: one route "/", POST issues an identifier and GET looks one
\* up; there is no guard and no product table.  The registry is `usermap`
\* (UserState.users); the lookup's `id` query parameter travels in the
\* request's identifier text.

\* Query<ListUser>: the `id` strings a lookup is called with.
ListUserIds ==
    {Malformed, SimpleTable[1]} \cup {HyphenatedTable[u] : u \in UUIDs}

\* main: the registry starts empty.
InitV0 == Init

\* POST /?username=..: draw the id, insert under the write lock, answer 200
\* with the hyphenated id.
v0_create_identifier(t) ==
    /\ pc[t] = "idle"
    /\ Cardinality(DOMAIN usermap) < MaxUsers
    /\ \E username \in Usernames, u \in NewV4(usermap) :
          /\ req' = Set(t, req, Request("POST /", NoHeader, username, None, None))
          /\ usermap' = HashMapInsert(usermap, u, username)
          /\ resp' = Set(t, resp, Response(OK, JsonString(to_string(u))))
          /\ issued' = issued \cup {<<to_string(u), username>>}
    /\ pc' = Set(t, pc, "done")
    /\ UNCHANGED <<product, id, found, rwlock>>

\* list_identifier's answer for the entry it found: the status is NOT_FOUND
\* here too (line 81).
list_identifier_response(uuid, username) ==
    Response(NOT_FOUND, JsonUser(to_string(uuid), username))

\* GET /?id=..: parse the id; a well-formed one is looked up under the read
\* lock with get_key_value(..).unwrap(), which panics on a missing entry; a
\* malformed one is answered NOT_FOUND with User::default().
list_identifier(t) ==
    /\ pc[t] = "idle"
    /\ \E s \in ListUserIds :
          /\ req' = Set(t, req, Request("GET /", TextHeader(s), "", None, None))
          /\ IF parse_str(s).ok
             THEN IF HashMapGet(usermap, parse_str(s).val).some
                  THEN /\ resp' = Set(t, resp,
                                      list_identifier_response(parse_str(s).val,
                                          HashMapGet(usermap, parse_str(s).val).val))
                       /\ pc' = Set(t, pc, "done")
                  ELSE /\ pc' = Set(t, pc, "panicked")
                       /\ UNCHANGED resp
             ELSE /\ resp' = Set(t, resp, Response(NOT_FOUND, JsonUser("", "")))
                  /\ pc' = Set(t, pc, "done")
    /\ UNCHANGED <<usermap, product, id, found, issued, rwlock>>

NextV0 ==
    \E t \in Tasks :
        \/ v0_create_identifier(t)
        \/ list_identifier(t)
        \/ Finish(t)

SpecV0 == InitV0 /\ [][NextV0]_vars

\* C14: in the earliest iteration, list_identifier called with a well-formed
\* identifier that is not in the registry answers NOT_FOUND, completes
\* normally, and leaves the registry unchanged.
C14_ListUnknownIsNotFound ==
    [][\A t \in Tasks :
          (/\ pc[t] = "idle" /\ Stepped(t)
           /\ req'[t].method = "GET /"
           /\ parse_str(req'[t].header.text).ok
           /\ parse_str(req'[t].header.text).val \notin DOMAIN usermap)
          => /\ pc'[t] = "done"
             /\ resp'[t].status = NOT_FOUND
             /\ usermap' = usermap]_vars


\* ===================================================== the registry lock
\* The same service with every acquisition of the registry's RwLock as a step
\* of its own: a task waits at write()/read() until the lock admits it, holds
\* the guard over the map access, and drops it when the function returns.
\* No await lies between an acquisition and the return that drops the guard.

\* write() is admitted when nobody holds a guard; read() when no writer does.
CanWrite(l) == l.writers = {} /\ l.readers = {}
CanRead(l) == l.writers = {}
AcquireWrite(l, t) == [l EXCEPT !.writers = @ \cup {t}]
AcquireRead(l, t) == [l EXCEPT !.readers = @ \cup {t}]

\* Release got wrong: the guard is leaked, the lock stays held.
Release_Leak(l, t) == l

\* The guard goes out of scope.
Release(l, t) == [writers |-> l.writers \ {t}, readers |-> l.readers \ {t}]

Holds(l, t) == t \in l.writers \cup l.readers

\* The identifiers drawn by issuances that have not inserted yet.
Drawn == {id[t] : t \in {x \in Tasks : pc[x] \in {"write_wait", "write_held"}}}

\* POST /identifiers, line 102: the id is drawn; the task goes on to write().
create_identifier_new_v4(t) ==
    /\ pc[t] = "idle"
    /\ Cardinality(DOMAIN usermap) + Cardinality(Drawn) < MaxUsers
    /\ \E username \in Usernames, u \in NewV4(usermap) \ Drawn :
          /\ req' = Set(t, req, Request("POST /identifiers", NoHeader, username, None, None))
          /\ id' = Set(t, id, u)
    /\ pc' = Set(t, pc, "write_wait")
    /\ UNCHANGED <<usermap, product, found, resp, issued, rwlock>>

\* Line 103: user.0.write()
create_identifier_write(t) ==
    /\ pc[t] = "write_wait"
    /\ CanWrite(rwlock)
    /\ rwlock' = AcquireWrite(rwlock, t)
    /\ pc' = Set(t, pc, "write_held")
    /\ UNCHANGED <<usermap, product, req, id, found, resp, issued>>

\* Lines 106-109: insert, answer 200, the guard is dropped at the return.
create_identifier_insert(t) ==
    /\ pc[t] = "write_held"
    /\ usermap' = HashMapInsert(usermap, id[t], req[t].username)
    /\ resp' = Set(t, resp, Response(OK, JsonString(to_string(id[t]))))
    /\ issued' = issued \cup {<<to_string(id[t]), req[t].username>>}
    /\ rwlock' = Release(rwlock, t)
    /\ id' = Set(t, id, 0)
    /\ pc' = Set(t, pc, "done")
    /\ UNCHANGED <<product, req, found>>

\* The protected routes followed here: get_identifier, which takes the lock a
\* second time in its body, and two product routes, whose handlers run after
\* the guard without touching the lock (as every product handler does).
LockMethods == {"GET /identifiers", "GET /products", "DELETE /products"}

\* A request to a protected route arrives; from_request_parts reads the header
\* (lines 215-219) and verify_uuid parses it (lines 229-231): a rejection here
\* never touches the lock; otherwise the task goes on to read().
RequiredUserId_parse(t) ==
    /\ pc[t] = "idle"
    /\ \E m \in LockMethods, h \in HeaderValues :
          /\ req' = Set(t, req, Request(m, h, "", None, None))
          /\ IF ~header_to_str(h).some
             THEN /\ resp' = Set(t, resp, Reject(FORBIDDEN, MsgMissing).rejection)
                  /\ pc' = Set(t, pc, "done")
             ELSE IF ~parse_str(header_to_str(h).val).ok
                  THEN /\ resp' = Set(t, resp, Reject(FORBIDDEN, MsgMalformed).rejection)
                       /\ pc' = Set(t, pc, "done")
                  ELSE /\ pc' = Set(t, pc, "read_wait")
                       /\ UNCHANGED resp
    /\ UNCHANGED <<usermap, product, id, found, issued, rwlock>>

\* Line 233: user.0.read()
verify_uuid_read(t) ==
    /\ pc[t] = "read_wait"
    /\ CanRead(rwlock)
    /\ rwlock' = AcquireRead(rwlock, t)
    /\ pc' = Set(t, pc, "read_held")
    /\ UNCHANGED <<usermap, product, req, id, found, resp, issued>>

\* Lines 234-238: the lookup; the guard is dropped at the return.
verify_uuid_get(t) ==
    /\ pc[t] = "read_held"
    /\ IF from_request_parts(req[t].header, usermap).ok
       THEN /\ id' = Set(t, id, from_request_parts(req[t].header, usermap).uuid)
            /\ pc' = Set(t, pc, "handler")
            /\ UNCHANGED resp
       ELSE /\ resp' = Set(t, resp, from_request_parts(req[t].header, usermap).rejection)
            /\ pc' = Set(t, pc, "done")
            /\ UNCHANGED id
    /\ rwlock' = Release(rwlock, t)
    /\ UNCHANGED <<usermap, product, req, found, issued>>

\* get_identifier, line 142: user.0.read()
get_identifier_read(t) ==
    /\ pc[t] = "handler" /\ req[t].method = "GET /identifiers"
    /\ CanRead(rwlock)
    /\ rwlock' = AcquireRead(rwlock, t)
    /\ pc' = Set(t, pc, "get_held")
    /\ UNCHANGED <<usermap, product, req, id, found, resp, issued>>

\* Lines 143-152: get_key_value(..).unwrap(), answer 302; the guard is dropped
\* at the return (or by the unwinding panic).
get_identifier_get_key_value(t) ==
    /\ pc[t] = "get_held"
    /\ IF HashMapGet(usermap, id[t]).some
       THEN /\ resp' = Set(t, resp, get_identifier_response(id[t], HashMapGet(usermap, id[t]).val))
            /\ pc' = Set(t, pc, "done")
       ELSE /\ pc' = Set(t, pc, "panicked")
            /\ UNCHANGED resp
    /\ rwlock' = Release(rwlock, t)
    /\ id' = Set(t, id, 0)
    /\ UNCHANGED <<usermap, product, req, found, issued>>

LockNext ==
    \E t \in Tasks :
        \/ create_identifier_new_v4(t)
        \/ create_identifier_write(t)
        \/ create_identifier_insert(t)
        \/ RequiredUserId_parse(t)
        \/ verify_uuid_read(t)
        \/ verify_uuid_get(t)
        \/ get_identifier_read(t)
        \/ get_identifier_get_key_value(t)
        \/ get_product(t)
        \/ delete_product(t)
        \/ Finish(t)

\* Fair scheduling: a task that can take its next step takes it (the runtime
\* keeps polling a ready task; the database answers every statement), and a
\* task waiting at the lock gets it if the lock is free again and again (no
\* starvation at the lock).  Nothing obliges a request to arrive.
LockFairness ==
    \A t \in Tasks :
        /\ SF_vars(create_identifier_write(t))
        /\ SF_vars(verify_uuid_read(t))
        /\ SF_vars(get_identifier_read(t))
        /\ WF_vars(create_identifier_insert(t))
        /\ WF_vars(verify_uuid_get(t))
        /\ WF_vars(get_identifier_get_key_value(t))
        /\ WF_vars(get_product(t))
        /\ WF_vars(delete_product(t))

LockSpec == Init /\ [][LockNext]_vars /\ LockFairness


C16_UnwrapNeverFails ==
    \A t \in Tasks :
        /\ pc[t] # "panicked"
        /\ pc[t] \in {"handler", "save", "update"} => id[t] \in DOMAIN usermap

\* A GET /identifiers sits between its guard and its lookup while an issuance
\* by the other task has gone through.
C16_Witness ==
    \E t1, t2 \in Tasks :
        /\ pc[t1] = "handler" /\ req[t1].method = "GET /identifiers"
        /\ pc[t2] = "done" /\ req[t2].method = "POST /identifiers"
        /\ resp[t2].status = OK
        /\ parse_str(resp[t2].body.id).val # id[t1]

\* C17: the owner of every row of the product table is an identifier in the
\* registry.
C17_ReferentialIntegrity ==
    \A i \in 1..Len(product) :
        /\ parse_str(product[i].owner).ok
        /\ parse_str(product[i].owner).val \in DOMAIN usermap

\* Rows of two owners, both registered.
C17_Witness ==
    /\ Len(product) = 2
    /\ product[1].owner # product[2].owner
    /\ Cardinality(DOMAIN usermap) = 2

\* C18: a step of a product request authenticated as owner A leaves the rows
\* of every other owner and the registry unchanged; no step of a
\* GET /products or GET /identifiers request, its guard included, changes the
\* table or the registry.
C18_OwnerIsolation ==
    [][\A t \in Tasks :
          /\ (Stepped(t) /\ pc[t] \in {"handler", "save", "update"})
             => /\ usermap' = usermap
                /\ \A u \in UUIDs :
                      u # id[t] => RowsOf(product', to_string(u)) = RowsOf(product, to_string(u))
          /\ (Stepped(t) /\ pc[t] = "idle" /\ req'[t].method \in ProtectedMethods)
             => usermap' = usermap /\ product' = product
          /\ (Stepped(t) /\ pc'[t] # "idle"
                /\ req'[t].method \in {"GET /products", "GET /identifiers"})
             => usermap' = usermap /\ product' = product]_vars

\* Two owners hold a row each, and a PUT by one of them has rewritten its own.
C18_Witness ==
    \E t \in Tasks :
        /\ pc[t] = "done" /\ req[t].method = "PUT /products"
        /\ resp[t].status = NO_CONTENT
        /\ Len(product) = 2
        /\ product[1].owner # product[2].owner
        /\ req[t].header.text \in {product[1].owner, product[2].owner}
        /\ product[1].name # product[2].name

====
